---- MODULE Spec2Model ----
(***************************************************************************)
(* Model of app.py: the format registry, the extension detector, the       *)
(* converters, the PDF page and batch renderers and the dispatcher.        *)
(* Each call of a function of app.py is one action, except the batch       *)
(* renderer, whose page loop advances one page per step.                   *)
(***************************************************************************)
EXTENDS Integers, Sequences, FiniteSets, TLC

(* ------------------------------ bounds --------------------------------- *)
MaxPages == 3
MaxNameLen == 4
MaxHandles == 2

(* --------------------------- format registry --------------------------- *)
TABULAR_TARGETS ==
  [ csv  |-> <<"json", "xlsx", "tsv">>,
    tsv  |-> <<"csv", "json", "xlsx">>,
    json |-> <<"csv", "tsv", "xlsx">>,
    xlsx |-> <<"csv", "tsv", "json">> ]

TEXT_TARGETS ==
  [ txt |-> <<"md">>,
    md  |-> <<"txt">> ]

IMAGE_TARGETS ==
  [ png  |-> <<"jpg", "webp", "bmp">>,
    jpg  |-> <<"png", "webp", "bmp">>,
    jpeg |-> <<"png", "webp", "bmp">>,
    webp |-> <<"png", "jpg", "bmp">>,
    bmp  |-> <<"png", "jpg", "webp">> ]

PDF_TARGETS ==
  [ pdf |-> <<"png", "jpg", "webp", "bmp">> ]

\* extensions a caller may pass: every registry key, plus extensions of no family
Exts ==
  { "csv", "tsv", "json", "xlsx", "txt", "md",
    "png", "jpg", "jpeg", "webp", "bmp", "pdf", "gif", "exe" }

Range(s) == { s[i] : i \in 1..Len(s) }

get_candidates(ext) ==
  IF ext \in DOMAIN TABULAR_TARGETS THEN TABULAR_TARGETS[ext]
  ELSE IF ext \in DOMAIN TEXT_TARGETS THEN TEXT_TARGETS[ext]
  ELSE IF ext \in DOMAIN IMAGE_TARGETS THEN IMAGE_TARGETS[ext]
  ELSE IF ext \in DOMAIN PDF_TARGETS THEN PDF_TARGETS[ext]
  ELSE << >>

(* -------------------------- extension detector ------------------------- *)
\* file names are sequences of characters
Alphabet == { "a", "B", ".", "/" }

Names == UNION { [1..n -> Alphabet] : n \in 0..MaxNameLen }

lower(s) == [ i \in 1..Len(s) |-> IF s[i] = "B" THEN "b" ELSE s[i] ]

\* index of the last occurrence of c in s, 0 when there is none (str.rfind + 1)
rfind(s, c) ==
  LET hits == { i \in 1..Len(s) : s[i] = c }
  IN  IF hits = {} THEN 0 ELSE CHOOSE i \in hits : \A j \in hits : j <= i

RECURSIVE lstrip(_, _)
lstrip(s, c) ==
  IF s # << >> /\ Head(s) = c THEN lstrip(Tail(s), c) ELSE s

\* Path(filename).name : the last component that is neither empty nor "."
PathName(filename) ==
  LET n     == Len(filename)
      \* components end at a separator or at the end of the string
      start(e) == LET seps == { i \in 1..e : filename[i] = "/" }
                  IN  IF seps = {} THEN 1
                      ELSE (CHOOSE i \in seps : \A j \in seps : j <= i) + 1
      comp(e)  == SubSeq(filename, start(e), e)
      ends     == { e \in 1..n : /\ filename[e] # "/"
                                 /\ (e = n \/ filename[e + 1] = "/")
                                 /\ comp(e) # <<".">> }
  IN  IF ends = {} THEN << >>
      ELSE comp(CHOOSE e \in ends : \A f \in ends : f <= e)

\* PurePath.suffix; CPython up to 3.13 ("classic") and from 3.14 ("splitext")
PathlibVariants == { "classic", "splitext" }

PathSuffix(filename, variant) ==
  LET name == PathName(filename)
  IN  IF variant = "classic"
      THEN LET i == rfind(name, ".")
           IN  IF 1 < i /\ i < Len(name)
               THEN SubSeq(name, i, Len(name)) ELSE << >>
      ELSE LET stripped == lstrip(name, ".")
               i == rfind(stripped, ".")
           IN  IF i = 0 THEN << >>
               ELSE SubSeq(stripped, i, Len(stripped))

\* variant of detect_extension: the suffix is not lowercased
detect_extension_noLower(filename, variant) ==
  lstrip(PathSuffix(filename, variant), ".")

detect_extension(filename, variant) ==
  lstrip(lower(PathSuffix(filename, variant)), ".")

(* ---------------------------- input payloads --------------------------- *)
DpiValues == { 72, 200 }

\* what can go wrong on one PDF page, by the call of the try block that raises
Stages == { "none", "load_page", "get_pixmap", "save", "writestr" }

\* a PDF byte stream: whether pymupdf can open it, its page count, and the
\* failing call of each page
ValidDocs ==
  UNION { { [valid |-> TRUE, page_count |-> n, fail |-> f] :
              f \in [1..n -> Stages] } : n \in 0..MaxPages }

CorruptDoc == [valid |-> FALSE, page_count |-> 0, fail |-> << >>]

Docs == ValidDocs \cup { CorruptDoc }

WellFormed(d) == d.valid /\ \A p \in 1..d.page_count : d.fail[p] = "none"

\* a decoded image: its pixel mode and whether its palette has transparency
Modes == { "RGB", "RGBA", "P", "L", "LA" }

Images ==
  { [mode |-> m, transparency |-> t] :
      m \in Modes, t \in BOOLEAN } \ 
  { [mode |-> m, transparency |-> TRUE] : m \in Modes \ {"P"} }

NoImage == [mode |-> "", transparency |-> FALSE]

HasAlpha(im) == im.mode \in {"RGBA", "LA"} \/ (im.mode = "P" /\ im.transparency)

\* Image.convert("RGB")
ConvertRGB(im) == [mode |-> "RGB", transparency |-> FALSE]

(* ------------------------------ converters ----------------------------- *)
upper ==
  [ csv |-> "CSV", tsv |-> "TSV", json |-> "JSON", xlsx |-> "XLSX",
    txt |-> "TXT", md |-> "MD", png |-> "PNG", jpg |-> "JPG",
    jpeg |-> "JPEG", webp |-> "WEBP", bmp |-> "BMP", pdf |-> "PDF",
    gif |-> "GIF", exe |-> "EXE" ]

\* variant of pil_fmt: the format name is always the uppercased extension
pil_fmt_upper(target_ext) == upper[target_ext]

pil_fmt(target_ext) == IF target_ext = "jpg" THEN "JPEG" ELSE upper[target_ext]

mime_map ==
  [ png  |-> "image/png",
    jpg  |-> "image/jpeg",
    webp |-> "image/webp",
    bmp  |-> "image/bmp" ]

\* Image.save(out, format=fmt): the formats the encoder registry knows and the
\* pixel modes each encoder writes
PilSaveFormats == { "PNG", "JPEG", "WEBP", "BMP", "GIF" }

ModeWritable(fmt, mode) ==
  CASE fmt = "JPEG" -> mode \in { "L", "RGB" }
    [] fmt = "BMP"  -> mode \in { "L", "P", "RGB", "RGBA" }
    [] OTHER        -> TRUE

\* outcome of a call: returned or raised, the error kind, the MIME type, the
\* library calls made, and the handles opened and closed by the call
Returned(m) ==
  [ outcome |-> "return", error |-> "", mime |-> m,
    loads |-> << >>, pixmaps |-> << >>, saved |-> << >>,
    opened |-> 0, closed |-> 0, img_opened |-> 0, img_closed |-> 0 ]

Raised(e) ==
  [ outcome |-> "raise", error |-> e, mime |-> "",
    loads |-> << >>, pixmaps |-> << >>, saved |-> << >>,
    opened |-> 0, closed |-> 0, img_opened |-> 0, img_closed |-> 0 ]

\* raw_ok: the loader of the source encoding accepts the bytes
load_tabular(source_ext, raw_ok) ==
  IF source_ext \in { "csv", "tsv", "json", "xlsx" }
  THEN IF raw_ok THEN "" ELSE "ParseError"
  ELSE "UnsupportedFormat"

convert_tabular(source_ext, target_ext, raw_ok) ==
  LET e == load_tabular(source_ext, raw_ok)
  IN  IF e # "" THEN Raised(e)
      ELSE IF target_ext = "csv" THEN Returned("text/csv")
      ELSE IF target_ext = "tsv" THEN Returned("text/tab-separated-values")
      ELSE IF target_ext = "json" THEN Returned("application/json")
      ELSE IF target_ext = "xlsx"
      THEN Returned("application/vnd.openxmlformats-officedocument.spreadsheetml.sheet")
      ELSE Raised("UnsupportedFormat")

\* variant of convert_text: the pair of extensions is not checked
convert_text_anyPair(source_ext, target_ext, raw_ok) ==
  IF ~raw_ok THEN Raised("InvalidEncoding")
  ELSE IF target_ext = "md" THEN Returned("text/markdown")
  ELSE Returned("text/plain")

\* raw_ok: the bytes are valid UTF-8
convert_text(source_ext, target_ext, raw_ok) ==
  IF ~raw_ok THEN Raised("InvalidEncoding")
  ELSE IF source_ext = "txt" /\ target_ext = "md" THEN Returned("text/markdown")
  ELSE IF source_ext = "md" /\ target_ext = "txt" THEN Returned("text/plain")
  ELSE Raised("UnsupportedFormat")

\* raw_ok: Image.open decodes the bytes, to the image im
convert_image(source_ext, target_ext, raw_ok, im) ==
  IF ~raw_ok THEN Raised("DecodeError")
  ELSE
    LET fmt  == pil_fmt(target_ext)
        img  == IF fmt = "JPEG" /\ im.mode \in { "RGBA", "P" }
                THEN ConvertRGB(im) ELSE im
        call == << [format |-> fmt, image |-> img] >>
    IN  IF fmt \notin PilSaveFormats
        THEN [ Raised("UnknownFormat") EXCEPT !.saved = call,
                 !.img_opened = 1 ]
        ELSE IF ~ModeWritable(fmt, img.mode)
        THEN [ Raised("EncodeError") EXCEPT !.saved = call,
                 !.img_opened = 1 ]
        ELSE IF target_ext \notin DOMAIN mime_map
        THEN [ Raised("KeyError") EXCEPT !.saved = call,
                 !.img_opened = 1 ]
        ELSE [ Returned(mime_map[target_ext]) EXCEPT !.saved = call,
                 !.img_opened = 1 ]

get_pdf_page_count(d) ==
  IF ~d.valid THEN Raised("CorruptOrUnsupportedDocument")
  ELSE [ Returned("") EXCEPT !.opened = 1, !.closed = 1 ]

\* the image handed to the encoder for a rendered page
PageImage == [mode |-> "RGB", transparency |-> FALSE]

\* variant of page_in_range: the first page is rejected as well
page_in_range_rejectsFirst(index, count) == ~(index <= 0 \/ index >= count)

\* the negation of the range test that raises
page_in_range(index, count) == ~(index < 0 \/ index >= count)

convert_pdf(target_ext, d, page_number, dpi) ==
  IF ~d.valid THEN Raised("CorruptOrUnsupportedDocument")
  ELSE
    LET page_index == page_number - 1
        scoped(r)  == [ r EXCEPT !.opened = 1, !.closed = 1 ]
        load       == << page_index >>
        pixmap     == << [index |-> page_index, dpi |-> dpi, base |-> 72] >>
        fmt        == pil_fmt(target_ext)
        save       == << [format |-> fmt, image |-> PageImage] >>
    IN  IF d.page_count = 0 THEN scoped(Raised("EmptyDocument"))
        ELSE IF ~page_in_range(page_index, d.page_count)
        THEN scoped(Raised("PageOutOfRange"))
        ELSE IF d.fail[page_number] = "load_page"
        THEN [ scoped(Raised("PageError")) EXCEPT !.loads = load ]
        ELSE IF d.fail[page_number] = "get_pixmap"
        THEN [ scoped(Raised("PageError")) EXCEPT !.loads = load,
                 !.pixmaps = pixmap ]
        ELSE IF fmt \notin PilSaveFormats
        THEN [ scoped(Raised("UnknownFormat")) EXCEPT !.loads = load,
                 !.pixmaps = pixmap, !.saved = save ]
        ELSE IF d.fail[page_number] = "save"
        THEN [ scoped(Raised("EncodeError")) EXCEPT !.loads = load,
                 !.pixmaps = pixmap, !.saved = save ]
        ELSE IF target_ext \notin DOMAIN mime_map
        THEN [ scoped(Raised("KeyError")) EXCEPT !.loads = load,
                 !.pixmaps = pixmap, !.saved = save ]
        ELSE [ scoped(Returned(mime_map[target_ext])) EXCEPT !.loads = load,
                 !.pixmaps = pixmap, !.saved = save ]

(* ------------------------------- state --------------------------------- *)
VARIABLES
  pc,            \* "idle", "loop" (inside the batch page loop) or "done"
  op,            \* the function that was called
  filename,      \* argument of detect_extension
  ext,           \* value returned by detect_extension
  source_ext,    \* arguments of the call
  target_ext,
  raw_ok,
  img,
  doc,
  page_number,
  dpi,
  candidates,    \* value returned by get_candidates
  page_index,    \* locals of convert_pdf_all_pages
  failed_pages,
  success_count,
  zf,            \* entries of the archive, in the order written
  loads,         \* page indices passed to doc.load_page, in call order
  pixmaps,       \* get_pixmap calls, in call order
  saved,         \* Image.save calls, in call order
  docHandles,    \* pymupdf documents open
  imgHandles,    \* PIL images opened and not closed
  outcome,       \* "none", "return" or "raise"
  error,         \* the error raised
  mime           \* the MIME type returned

vars ==
  << pc, op, filename, ext, source_ext, target_ext, raw_ok, img, doc,
     page_number, dpi, candidates, page_index, failed_pages, success_count,
     zf, loads, pixmaps, saved, docHandles, imgHandles, outcome, error, mime >>

detectVars == << filename, ext >>
registryVars == << candidates >>
argVars == << source_ext, target_ext, raw_ok, img, doc, page_number, dpi >>
batchVars == << page_index, failed_pages, success_count, zf >>
callVars == << loads, pixmaps, saved >>
resultVars == << outcome, error, mime >>

Init ==
  /\ pc = "idle"
  /\ op = "none"
  /\ filename = << >>
  /\ ext = << >>
  /\ source_ext = ""
  /\ target_ext = ""
  /\ raw_ok = TRUE
  /\ img = NoImage
  /\ doc = CorruptDoc
  /\ page_number = 1
  /\ dpi = 200
  /\ candidates = << >>
  /\ page_index = 0
  /\ failed_pages = << >>
  /\ success_count = 0
  /\ zf = << >>
  /\ loads = << >>
  /\ pixmaps = << >>
  /\ saved = << >>
  /\ docHandles = 0
  /\ imgHandles = 0
  /\ outcome = "none"
  /\ error = ""
  /\ mime = ""

\* the call ends with the outcome r
Finish(r) ==
  /\ outcome' = r.outcome
  /\ error' = r.error
  /\ mime' = r.mime
  /\ loads' = r.loads
  /\ pixmaps' = r.pixmaps
  /\ saved' = r.saved
  /\ docHandles' = docHandles + r.opened - r.closed
  /\ imgHandles' = imgHandles + r.img_opened - r.img_closed
  /\ pc' = "done"

DetectExtension ==
  /\ pc = "idle"
  /\ \E f \in Names, v \in PathlibVariants :
       /\ filename' = f
       /\ ext' = detect_extension(f, v)
  /\ op' = "detect_extension"
  /\ pc' = "done"
  /\ UNCHANGED << registryVars, argVars, batchVars, callVars, resultVars,
                  docHandles, imgHandles >>

GetCandidates ==
  /\ pc = "idle"
  /\ \E e \in Exts :
       /\ source_ext' = e
       /\ candidates' = get_candidates(e)
  /\ op' = "get_candidates"
  /\ pc' = "done"
  /\ UNCHANGED << detectVars, target_ext, raw_ok, img, doc, page_number, dpi,
                  batchVars, callVars, resultVars, docHandles, imgHandles >>

GetPdfPageCount ==
  /\ pc = "idle"
  /\ \E d \in Docs :
       /\ doc' = d
       /\ Finish(get_pdf_page_count(d))
  /\ op' = "get_pdf_page_count"
  /\ UNCHANGED << detectVars, registryVars, source_ext, target_ext, raw_ok,
                  img, page_number, dpi, batchVars >>

ConvertFile ==
  /\ pc = "idle"
  /\ op' = "convert_file"
  /\ \E s \in Exts, t \in Exts :
       /\ source_ext' = s
       /\ target_ext' = t
       /\ IF s \in DOMAIN TABULAR_TARGETS
          THEN \E ok \in BOOLEAN :
                 /\ raw_ok' = ok
                 /\ Finish(convert_tabular(s, t, ok))
                 /\ UNCHANGED << img, doc, page_number, dpi >>
          ELSE IF s \in DOMAIN TEXT_TARGETS
          THEN \E ok \in BOOLEAN :
                 /\ raw_ok' = ok
                 /\ Finish(convert_text(s, t, ok))
                 /\ UNCHANGED << img, doc, page_number, dpi >>
          ELSE IF s \in DOMAIN IMAGE_TARGETS
          THEN \E ok \in BOOLEAN, im \in Images :
                 /\ imgHandles < MaxHandles
                 /\ raw_ok' = ok
                 /\ img' = IF ok THEN im ELSE NoImage
                 /\ Finish(convert_image(s, t, ok, im))
                 /\ UNCHANGED << doc, page_number, dpi >>
          ELSE IF s \in DOMAIN PDF_TARGETS
          THEN \E d \in Docs, n \in -1..(MaxPages + 1), r \in DpiValues :
                 /\ doc' = d
                 /\ page_number' = n
                 /\ dpi' = r
                 /\ Finish(convert_pdf(t, d, n, r))
                 /\ UNCHANGED << raw_ok, img >>
          ELSE /\ Finish(Raised("UnsupportedSourceFormat"))
               /\ UNCHANGED << raw_ok, img, doc, page_number, dpi >>
  /\ UNCHANGED << detectVars, registryVars, batchVars >>

\* variant of entry_name: the entry is named by the 0-based page index
entry_name_zeroBased(index, t) == << "page_", index, ".", t >>

\* f"page_{page_index + 1}.{target_ext}"
entry_name(index, t) == << "page_", index + 1, ".", t >>

\* the try block of the page loop for page index i: the library calls it
\* makes and whether it reaches the end without raising
try_page(d, t, r, i) ==
  LET stage  == d.fail[i + 1]
      fmt    == pil_fmt(t)
      load   == << i >>
      pixmap == << [index |-> i, dpi |-> r, base |-> 72] >>
      save   == << [format |-> fmt, image |-> PageImage] >>
  IN  IF stage = "load_page"
      THEN [ ok |-> FALSE, loads |-> load, pixmaps |-> << >>, saved |-> << >> ]
      ELSE IF stage = "get_pixmap"
      THEN [ ok |-> FALSE, loads |-> load, pixmaps |-> pixmap, saved |-> << >> ]
      ELSE IF fmt \notin PilSaveFormats \/ stage = "save"
      THEN [ ok |-> FALSE, loads |-> load, pixmaps |-> pixmap, saved |-> save ]
      ELSE IF stage = "writestr"
      THEN [ ok |-> FALSE, loads |-> load, pixmaps |-> pixmap, saved |-> save ]
      ELSE [ ok |-> TRUE, loads |-> load, pixmaps |-> pixmap, saved |-> save ]

\* variant of page_step: the success count is incremented outside the try
page_step_countAlways(ok, index, t, failed, count, entries) ==
  IF ok
  THEN [ failed_pages |-> failed, success_count |-> count + 1,
         zf |-> Append(entries, entry_name(index, t)) ]
  ELSE [ failed_pages |-> Append(failed, index + 1),
         success_count |-> count + 1, zf |-> entries ]

\* the bookkeeping of one iteration: the end of the try block, or the handler
page_step(ok, index, t, failed, count, entries) ==
  IF ok
  THEN [ failed_pages |-> failed, success_count |-> count + 1,
         zf |-> Append(entries, entry_name(index, t)) ]
  ELSE [ failed_pages |-> Append(failed, index + 1),
         success_count |-> count, zf |-> entries ]

\* convert_pdf_all_pages up to the first iteration of the page loop
BatchOpen ==
  /\ pc = "idle"
  /\ op' = "convert_pdf_all_pages"
  /\ \E t \in Exts, d \in Docs, r \in DpiValues :
       /\ target_ext' = t
       /\ doc' = d
       /\ dpi' = r
       /\ IF ~d.valid
          THEN Finish(Raised("CorruptOrUnsupportedDocument"))
          ELSE IF d.page_count = 0
          THEN Finish([ Raised("EmptyDocument") EXCEPT !.opened = 1,
                          !.closed = 1 ])
          ELSE /\ pc' = "loop"
               /\ docHandles' = docHandles + 1
               /\ UNCHANGED << callVars, resultVars, imgHandles >>
  /\ page_index' = 0
  /\ failed_pages' = << >>
  /\ success_count' = 0
  /\ zf' = << >>
  /\ UNCHANGED << detectVars, registryVars, source_ext, raw_ok, img,
                  page_number >>

\* variant of BatchPage: no handler around the page, the failure of a page
\* ends the call
BatchPage_noHandler ==
  /\ pc = "loop"
  /\ page_index < doc.page_count
  /\ LET r == try_page(doc, target_ext, dpi, page_index)
         b == page_step(TRUE, page_index, target_ext, failed_pages,
                        success_count, zf)
     IN  /\ loads' = loads \o r.loads
         /\ pixmaps' = pixmaps \o r.pixmaps
         /\ saved' = saved \o r.saved
         /\ IF r.ok
            THEN /\ failed_pages' = b.failed_pages
                 /\ success_count' = b.success_count
                 /\ zf' = b.zf
                 /\ page_index' = page_index + 1
                 /\ UNCHANGED << pc, resultVars, docHandles >>
            ELSE /\ pc' = "done"
                 /\ outcome' = "raise"
                 /\ error' = "PageError"
                 /\ mime' = ""
                 /\ docHandles' = docHandles - 1
                 /\ UNCHANGED << batchVars >>
  /\ UNCHANGED << op, detectVars, registryVars, argVars, imgHandles >>

\* one iteration of the page loop
BatchPage ==
  /\ pc = "loop"
  /\ page_index < doc.page_count
  /\ LET r == try_page(doc, target_ext, dpi, page_index)
         b == page_step(r.ok, page_index, target_ext, failed_pages,
                        success_count, zf)
     IN  /\ loads' = loads \o r.loads
         /\ pixmaps' = pixmaps \o r.pixmaps
         /\ saved' = saved \o r.saved
         /\ failed_pages' = b.failed_pages
         /\ success_count' = b.success_count
         /\ zf' = b.zf
  /\ page_index' = page_index + 1
  /\ UNCHANGED << pc, op, detectVars, registryVars, argVars, resultVars,
                  docHandles, imgHandles >>

\* variant of BatchFinish: the result is returned whatever the success count
BatchFinish_noCheck ==
  /\ pc = "loop"
  /\ page_index >= doc.page_count
  /\ docHandles' = docHandles - 1
  /\ outcome' = "return"
  /\ error' = ""
  /\ mime' = "application/zip"
  /\ pc' = "done"
  /\ UNCHANGED << op, detectVars, registryVars, argVars, batchVars, callVars,
                  imgHandles >>

\* the loop is over: the archive and the document are closed, then the
\* success count decides between the error and the result
BatchFinish ==
  /\ pc = "loop"
  /\ page_index >= doc.page_count
  /\ docHandles' = docHandles - 1
  /\ IF success_count = 0
     THEN /\ outcome' = "raise"
          /\ error' = "BatchConversionFailed"
          /\ mime' = ""
     ELSE /\ outcome' = "return"
          /\ error' = ""
          /\ mime' = "application/zip"
  /\ pc' = "done"
  /\ UNCHANGED << op, detectVars, registryVars, argVars, batchVars, callVars,
                  imgHandles >>

\* the garbage collector finalizes an image that nothing closed
CollectImage ==
  /\ imgHandles > 0
  /\ imgHandles' = imgHandles - 1
  /\ UNCHANGED << pc, op, detectVars, registryVars, argVars, batchVars,
                  callVars, resultVars, docHandles >>

\* the script is run again for the next request, with fresh locals
Rerun ==
  /\ pc = "done"
  /\ pc' = "idle"
  /\ op' = "none"
  /\ filename' = << >>
  /\ ext' = << >>
  /\ source_ext' = ""
  /\ target_ext' = ""
  /\ raw_ok' = TRUE
  /\ img' = NoImage
  /\ doc' = CorruptDoc
  /\ page_number' = 1
  /\ dpi' = 200
  /\ candidates' = << >>
  /\ page_index' = 0
  /\ failed_pages' = << >>
  /\ success_count' = 0
  /\ zf' = << >>
  /\ loads' = << >>
  /\ pixmaps' = << >>
  /\ saved' = << >>
  /\ outcome' = "none"
  /\ error' = ""
  /\ mime' = ""
  /\ UNCHANGED << docHandles, imgHandles >>

Next ==
  \/ DetectExtension
  \/ GetCandidates
  \/ GetPdfPageCount
  \/ ConvertFile
  \/ BatchOpen
  \/ BatchPage
  \/ BatchFinish
  \/ CollectImage
  \/ Rerun

Spec == Init /\ [][Next]_vars

(* ------------------------------ properties ----------------------------- *)
NoDuplicates(q) == \A i, j \in 1..Len(q) : q[i] = q[j] => i = j

StrictlyAscending(q) == \A i, j \in 1..Len(q) : i < j => q[i] < q[j]

BatchDone == op = "convert_pdf_all_pages" /\ pc = "done"

BatchReturned == BatchDone /\ outcome = "return"

\* the batch call got past the empty-document test
BatchStarted ==
  op = "convert_pdf_all_pages" /\ doc.valid /\ doc.page_count >= 1

Recognized ==
  DOMAIN TABULAR_TARGETS \cup DOMAIN TEXT_TARGETS
    \cup DOMAIN IMAGE_TARGETS \cup DOMAIN PDF_TARGETS

\* C1: whenever convert_pdf_all_pages returns a result for an N-page
\* document, success_count plus the number of distinct failed pages is N,
\* no page occurs twice in failed_pages, and every page 1..N is either in
\* failed_pages or has its archive entry, never both.
C1_PagesCountedOnce ==
  BatchReturned =>
    /\ success_count + Cardinality(Range(failed_pages)) = doc.page_count
    /\ NoDuplicates(failed_pages)
    /\ Range(failed_pages) \subseteq 1..doc.page_count
    /\ \A p \in 1..doc.page_count :
         (p \in Range(failed_pages))
           # (<< "page_", p, ".", target_ext >> \in Range(zf))

C1_Witness ==
  /\ BatchReturned
  /\ doc.page_count = 3
  /\ Len(failed_pages) = 2
  /\ success_count = 1

\* C2: a failing page never aborts the batch nor reaches the caller: the
\* pages are loaded in the order 0, 1, ..., one per iteration, the loop is
\* left only after the last page, the only error of a started batch is the
\* one raised after the loop, and failed_pages is strictly ascending.
C2_State ==
  BatchStarted =>
    /\ loads = [ i \in 1..page_index |-> i - 1 ]
    /\ StrictlyAscending(failed_pages)
    /\ pc = "done" => page_index = doc.page_count
    /\ error \in { "", "BatchConversionFailed" }

C2_Step ==
  (BatchStarted /\ pc = "loop" /\ page_index' # page_index) =>
    /\ page_index' = page_index + 1
    /\ page_index < doc.page_count
    /\ pc' = "loop"
    /\ loads' = Append(loads, page_index)

C2_NoAbortAscending == []C2_State /\ [][C2_Step]_vars

C2_Witness ==
  /\ BatchReturned
  /\ failed_pages = << 1, 2 >>
  /\ loads = << 0, 1, 2 >>
  /\ zf = << << "page_", 3, ".", target_ext >> >>

\* C3: convert_pdf_all_pages never returns an archive without entries; when
\* every page of a document with N >= 1 pages failed, the call raises
\* BatchConversionFailed, and that error is raised only once all N pages
\* were attempted.
C3_NoEmptyArchive ==
  /\ BatchReturned => Len(zf) > 0
  /\ (BatchDone /\ BatchStarted /\ success_count = 0) =>
       /\ outcome = "raise"
       /\ error = "BatchConversionFailed"
  /\ error = "BatchConversionFailed" =>
       /\ BatchStarted
       /\ page_index = doc.page_count
       /\ Len(loads) = doc.page_count
       /\ failed_pages = [ i \in 1..doc.page_count |-> i ]

C3_Witness ==
  /\ BatchDone
  /\ error = "BatchConversionFailed"
  /\ doc.page_count = 3
  /\ doc.fail[1] = "load_page"

\* C4: on a well-formed PDF with at least one page, convert_pdf raises
\* PageOutOfRange for every page_number outside 1..page_count without any
\* load_page or get_pixmap call, and for every page_number inside it and a
\* target of PDF_TARGETS it returns the MIME type of the target after
\* loading and rasterizing exactly the page of index page_number - 1.
C4_PageRange ==
  ( /\ op = "convert_file" /\ pc = "done" /\ source_ext = "pdf"
    /\ WellFormed(doc) /\ doc.page_count >= 1 ) =>
    IF page_number \notin 1..doc.page_count
    THEN /\ outcome = "raise"
         /\ error = "PageOutOfRange"
         /\ loads = << >>
         /\ pixmaps = << >>
         /\ saved = << >>
    ELSE target_ext \in Range(PDF_TARGETS.pdf) =>
           /\ outcome = "return"
           /\ mime = mime_map[target_ext]
           /\ loads = << page_number - 1 >>
           /\ Len(pixmaps) = 1
           /\ pixmaps[1].index = page_number - 1

C4_Witness ==
  /\ op = "convert_file" /\ pc = "done" /\ source_ext = "pdf"
  /\ WellFormed(doc) /\ doc.page_count = 2
  /\ page_number = 3
  /\ error = "PageOutOfRange"

\* C5: for every recognized source extension get_candidates returns a
\* non-empty list without duplicates, and a convert_file call whose target
\* is in that list is never refused for its formats: it does not raise an
\* unsupported-format error nor a missing MIME entry, and it returns when
\* the payload itself is sound.
FormatErrors ==
  { "UnsupportedSourceFormat", "UnsupportedFormat", "UnknownFormat",
    "KeyError" }

SoundPayload ==
  /\ raw_ok
  /\ source_ext \in DOMAIN IMAGE_TARGETS =>
       ModeWritable(pil_fmt(target_ext), saved[1].image.mode)
  /\ source_ext \in DOMAIN PDF_TARGETS =>
       WellFormed(doc) /\ page_number \in 1..doc.page_count

C5_CandidatesAccepted ==
  /\ (op = "get_candidates" /\ pc = "done" /\ source_ext \in Recognized) =>
       candidates # << >> /\ NoDuplicates(candidates)
  /\ ( /\ op = "convert_file" /\ pc = "done"
       /\ target_ext \in Range(get_candidates(source_ext)) ) =>
       /\ error \notin FormatErrors
       /\ SoundPayload => outcome = "return"

C5_Witness ==
  /\ op = "convert_file" /\ pc = "done"
  /\ source_ext = "jpeg"
  /\ target_ext = "webp"
  /\ img.mode = "RGBA"
  /\ outcome = "return"

\* C6: on every return of convert_pdf_all_pages the archive holds exactly
\* the entries page_<N>.<ext> of the pages N of 1..page_count that are not
\* in failed_pages, in ascending page order, as many as success_count, and
\* the MIME type is application/zip.
C6_ArchiveEntries ==
  BatchReturned =>
    LET done == { p \in 1..doc.page_count : p \notin Range(failed_pages) }
    IN  /\ Range(zf) = { << "page_", p, ".", target_ext >> : p \in done }
        /\ Len(zf) = Cardinality(done)
        /\ Len(zf) = success_count
        /\ \A i, j \in 1..Len(zf) : i < j => zf[i][2] < zf[j][2]
        /\ mime = "application/zip"

C6_Witness ==
  /\ BatchReturned
  /\ target_ext = "png"
  /\ failed_pages = << >>
  /\ zf = << << "page_", 1, ".", "png" >>, << "page_", 2, ".", "png" >>,
             << "page_", 3, ".", "png" >> >>

FamilyTargets(x) ==
  LET family == IF x \in DOMAIN TABULAR_TARGETS THEN TABULAR_TARGETS
                ELSE IF x \in DOMAIN TEXT_TARGETS THEN TEXT_TARGETS
                ELSE IF x \in DOMAIN IMAGE_TARGETS THEN IMAGE_TARGETS
                ELSE IF x \in DOMAIN PDF_TARGETS THEN PDF_TARGETS
                ELSE << >>
  IN  UNION { Range(family[e]) : e \in DOMAIN family }

LastPart(f) == SubSeq(f, rfind(f, "/") + 1, Len(f))

AfterLastDot(part) == SubSeq(part, rfind(part, ".") + 1, Len(part))

\* C8 as stated: detect_extension returns the lowercased text after the last
\* '.' of the part after the last path separator, and the empty string
\* exactly when that part has no '.'.
C8_Original ==
  (op = "detect_extension" /\ pc = "done") =>
    LET part == LastPart(filename)
    IN  /\ ext = IF "." \in Range(part) THEN lower(AfterLastDot(part))
                 ELSE << >>
        /\ ext = << >> <=> "." \notin Range(part)

\* the file name without the trailing separators and "." components
RECURSIVE Trimmed(_)
Trimmed(f) ==
  LET n == Len(f)
  IN  IF n = 0 THEN f
      ELSE IF f[n] = "/" THEN Trimmed(SubSeq(f, 1, n - 1))
      ELSE IF f[n] = "." /\ (n = 1 \/ f[n - 1] = "/")
      THEN Trimmed(SubSeq(f, 1, n - 1))
      ELSE f

\* C8: with the final path component taken as pathlib does (trailing
\* separators and "." components dropped), detect_extension returns the
\* lowercased text after the last '.' of the component when that '.' is not
\* its last character and some character other than '.' precedes it; it
\* returns the empty string when the component has no '.', ends with '.',
\* or has its only '.' as first character.
C8_SuffixRule ==
  (op = "detect_extension" /\ pc = "done") =>
    LET name == LastPart(Trimmed(filename))
        i    == rfind(name, ".")
    IN  /\ (i < Len(name) /\ \E j \in 1..(i - 1) : name[j] # ".") =>
             ext = lower(AfterLastDot(name))
        /\ (i = 0 \/ i = Len(name) \/ i = 1) => ext = << >>

C8_Witness ==
  /\ op = "detect_extension" /\ pc = "done"
  /\ filename = << "a", ".", "a", "B" >>
  /\ ext = << "a", "b" >>

\* C9: in convert_image, when the target is jpg or jpeg and the decoded
\* image carries an alpha channel or a transparent palette, the encoder is
\* called on the image converted to opaque RGB and does not fail; for every
\* other target the encoder is called on the decoded image itself.
C9_FlattenedBeforeJpeg ==
  ( /\ op = "convert_file" /\ pc = "done"
    /\ source_ext \in DOMAIN IMAGE_TARGETS /\ raw_ok ) =>
    IF target_ext \in { "jpg", "jpeg" }
    THEN HasAlpha(img) =>
           /\ Len(saved) = 1
           /\ saved[1].image = ConvertRGB(img)
           /\ error # "EncodeError"
    ELSE saved = << [format |-> pil_fmt(target_ext), image |-> img] >>

\* C10: once a call has ended, by a return or by any failure, no document
\* and no image handle is open.
C10_NoOpenHandles ==
  pc \in { "idle", "done" } => docHandles = 0 /\ imgHandles = 0
====
